---- MODULE Spec2Model ----
(***************************************************************************)
(* Model of test-image.py, the Docker image tester and benchmark of        *)
(* locations-rs: the module-level results (CHECKS, STATS, TOTAL_REQUESTS,  *)
(* TOTAL_REQUEST_ERRORS), the control flow of test_image / test_local, and *)
(* run_benchmark's parser of the load generator's report.                  *)
(*                                                                         *)
(* Conventions.  Python's None is the empty tuple and a present value x is *)
(* the 1-tuple <<x>>.  A raised exception is a record [type, origin].  A   *)
(* line of text is a record of the parts the regular expressions read.     *)
(* Durations and sizes measured at run time are opaque tokens.  CPU time   *)
(* is kept in the unit docker reports (the division by 1000**3 scales all  *)
(* readings alike); the memory fields of Stats, copied from docker's       *)
(* answer and read by nothing else, are left out.                          *)
(***************************************************************************)
EXTENDS Integers, Sequences, FiniteSets, TLC

VARIABLES
    mode,                 \* "image", "local" or "remote" (docopt's args)
    bench,                \* not args['--no-bench']
    log_threads_enabled,  \* args['--log-threads']
    groups,               \* the list of http check groups asked for
    pc,                   \* position in test_image / test_local
    gi,                   \* perform_http_checks: index of the current group
    fi,                   \* perform_http_checks: index of the current func
    round,                \* test_image: index into connection_range
    attempt,              \* wait_for_container_ready: turns of its loop made
                          \* (SpecReady; a single step elsewhere, so 0)
    TOTAL_REQUESTS,
    TOTAL_REQUEST_ERRORS,
    STATS,
    CHECKS,
    container,            \* "none", "running", "stopped" or "died"
    stop_calls,           \* calls of container.stop made by run_container
    cpu_usage,            \* the container's cumulative CPU counter
    wrk_calls,            \* the load generator's invocations so far
    wrk_traffic,          \* requests the load generator has made so far
    stdout,               \* process.stdout.splitlines() of the last round
    exc,                  \* the exception in flight, or NoExc
    saved,                \* what save_results dumped, or NoFile
    ran,                  \* history: check() calls, << func, how func ended >>
    collected,            \* history: collect_stats calls that returned
    names,                \* render-tests.py: the suites' names, as ordered
    suites,               \* render-tests.py: name -> the suite loaded
    out_md                \* render-tests.py: the lines printed to out

vars ==
    << mode, bench, log_threads_enabled, groups, pc, gi, fi, round, attempt,
       TOTAL_REQUESTS, TOTAL_REQUEST_ERRORS, STATS, CHECKS, container,
       stop_calls, cpu_usage, wrk_calls, wrk_traffic, stdout, exc, saved, ran,
       collected, names, suites, out_md >>

(***************************************************************************)
(* Bounds of the model.                                                    *)
(***************************************************************************)
\* Longest --http-checks list tried besides the default "all".
MaxGroups == 2

\* Requests (of any outcome) the load generator gets through over a whole
\* sweep of Spec; SpecBench's single round has its own ranges.
MaxSweepTraffic == 1

\* Largest count printed on a line of the report in SpecBench.
MaxCount == 2

\* Most suites render-tests.py finds to render in SpecRender.
MaxSuites == 2

None == << >>

Some(x) == << x >>

NoExc == [type |-> "none", origin |-> "none", connections |-> None]

Exc(type, origin) == [type |-> type, origin |-> origin, connections |-> None]

\* ContainerDied(connections), raised by collect_stats.
ContainerDied(connections) ==
    [type |-> "ContainerDied", origin |-> "collect_stats",
     connections |-> connections]

NoFile == << >>

(***************************************************************************)
(* The registry filled by the @http_check decorators, in registration      *)
(* order, and the docstring of every check function (the key check() logs  *)
(* under).  Non-ASCII letters of three docstrings are transliterated.      *)
(***************************************************************************)
HTTP_CHECK_FUNCS ==
    [ get |->
        << "http_check_root",
           "http_check_nonexistent_path",
           "http_check_no_params",
           "http_check_just_id_param",
           "http_check_invalid_id",
           "http_check_just_language_param",
           "http_check_nonexistent_city_id",
           "http_check_plzen_cs",
           "http_check_praha_en",
           "http_check_brno_de",
           "http_check_graz_cs_extra_param" >>,
      featured |->
        << "http_check_featured_no_lang",
           "http_check_featured_invalid_lang",
           "http_check_featured_cs",
           "http_check_featured_sk" >>,
      search |->
        << "http_check_search_brunn",
           "http_check_search_kremze_diacritics",
           "http_check_search_kremze_ascii",
           "http_check_search_kremze_diacritics_in_at" >>,
      closest |->
        << "http_check_closest_invalid_no_lang",
           "http_check_closest_invalid_lat_only",
           "http_check_closest_invalid_lon_only",
           "http_check_closest_invalid_lat",
           "http_check_closest_invalid_lon",
           "http_check_closest_lat_lon_kozolupy",
           "http_check_closest_lat_lon_tricky_cernak",
           "http_check_closest_geoip_praha",
           "http_check_closest_lang_fallback",
           "http_check_closest_geoip_invalid" >>,
      associatedFeatured |->
        << "http_check_associated_featured_graz",
           "http_check_associated_featured_praha",
           "http_check_associated_featured_invalid" >> ]

Doc ==
    [ logs_on_startup |->
        "Service logs a message containing 8080 (used port) on startup",
      logs_each_request |->
        "Service logs every request, message contains url path",
      http_check_root |->
        "HTTP GET / returns 200 or 404",
      http_check_nonexistent_path |->
        "HTTP GET /fnhjkdniudsancyne returns 404",
      http_check_no_params |->
        "HTTP GET /city/v1/get returns 400 with error JSON with message",
      http_check_just_id_param |->
        "HTTP GET /city/v1/get?id=123 returns 400 with error JSON with message",
      http_check_invalid_id |->
        "HTTP GET /city/v1/get?id=blabla&language=cs returns 400 with error JSON with message",
      http_check_just_language_param |->
        "HTTP GET /city/v1/get?language=cs returns 400 with error JSON with message",
      http_check_nonexistent_city_id |->
        "HTTP GET /city/v1/get?id=123&language=cs returns 404 (this does not exist) with error JSON with message",
      http_check_plzen_cs |->
        "HTTP GET /city/v1/get?id=101748111&language=cs returns 200 and correct object",
      http_check_praha_en |->
        "HTTP GET /city/v1/get?id=101748113&language=cs returns 200 and correct object",
      http_check_brno_de |->
        "HTTP GET /city/v1/get?id=101748109&language=de returns 200 and correct object",
      http_check_graz_cs_extra_param |->
        "HTTP GET /city/v1/get?id=101748063&language=cs&extra=paramShouldBeIgnored returns 200 and correct object",
      http_check_featured_no_lang |->
        "HTTP GET /city/v1/featured returns 400 with error JSON with message",
      http_check_featured_invalid_lang |->
        "HTTP GET /city/v1/featured?language=invalid returns 400 with error JSON with message",
      http_check_featured_cs |->
        "HTTP GET /city/v1/featured?language=cs returns 200 and correct list of cities",
      http_check_featured_sk |->
        "HTTP GET /city/v1/featured?language=sk returns 200 and correct list of cities",
      http_check_search_brunn |->
        "HTTP GET /city/v1/search?language=de&query=Brno returns 200 and just Bruenn",
      http_check_search_kremze_diacritics |->
        "HTTP GET /city/v1/search?language=cs&query=kr~emz~e returns 200 and CZ city first",
      http_check_search_kremze_ascii |->
        "HTTP GET /city/v1/search?language=cs&query=kremze returns 200 and AT city first",
      http_check_search_kremze_diacritics_in_at |->
        "HTTP GET /city/v1/search?language=cs&query=kr~emz~e&countryIso=at returns 200 and AT city only",
      http_check_closest_invalid_no_lang |->
        "HTTP GET /city/v1/closest returns 400",
      http_check_closest_invalid_lat_only |->
        "HTTP GET /city/v1/closest?language=cs&lat=50 returns 400",
      http_check_closest_invalid_lon_only |->
        "HTTP GET /city/v1/closest?language=cs&lon=14 returns 400",
      http_check_closest_invalid_lat |->
        "HTTP GET /city/v1/closest?language=cs&lat=-90.3&lon=14 returns 400",
      http_check_closest_invalid_lon |->
        "HTTP GET /city/v1/closest?language=cs&lat=50&lon=192 returns 400",
      http_check_closest_lat_lon_kozolupy |->
        "HTTP GET /city/v1/closest?language=cs&lat=49.84&lon=12.92 returns 200 Kozolupy",
      http_check_closest_lat_lon_tricky_cernak |->
        "HTTP GET /city/v1/closest?language=pl&lat=50.107&lon=14.574 returns 200 Praha (even tho Hostavice are closer)",
      http_check_closest_geoip_praha |->
        "HTTP GET /city/v1/closest?language=de + 50,14 Fastly headers returns 200 Praha",
      http_check_closest_lang_fallback |->
        "HTTP GET /city/v1/closest?language=de returns 200 Berlin (lang fallback)",
      http_check_closest_geoip_invalid |->
        "HTTP GET /city/v1/closest?language=pl + 0,0 Fastly headers returns 200 Warszava (lang fallback)",
      http_check_associated_featured_graz |->
        "HTTP GET /city/v1/associatedFeatured?id=101748063&language=cs (Graz) returns 200 and Bratislava",
      http_check_associated_featured_praha |->
        "HTTP GET /city/v1/associatedFeatured?id=101748113&language=pl (Praha) returns 200 and Praha itself",
      http_check_associated_featured_invalid |->
        "HTTP GET /city/v1/associatedFeatured?id=123456&language=en (invalid id) returns 404" ]

\* list(HTTP_CHECK_FUNCS.keys()): what --http-checks=all stands for.
AllGroups == << "get", "featured", "search", "closest", "associatedFeatured" >>

(***************************************************************************)
(* Inputs and environment.                                                 *)
(***************************************************************************)
\* Group names typed on the command line: a registered one and a typo.
GroupNames == {"associatedFeatured", "nosuchgroup"}

GroupLists ==
    {AllGroups} \cup UNION {[1..n -> GroupNames] : n \in 0..MaxGroups}

\* The check the service under test may fail or crash on; it passes the
\* others whenever they run.
FlakyChecks == {"http_check_associated_featured_graz"}

\* How a call of a check function can end: it returns, an assert of it
\* fails, or the HTTP client raises (requests.exceptions.ConnectionError).
AllOutcomes == {"returns", "AssertionError", "ConnectionError"}

Outcomes(func) == IF func \in FlakyChecks THEN AllOutcomes ELSE {"returns"}

\* test_image's connection_range when bench is set.
ConnectionRange ==
    << 1, 1, 1, 1, 1, 2, 4, 8, 16, 32, 64, 128, 256, 512, 1024, 2048 >>

\* Mutant of connection_range: --no-bench is ignored.
connection_range_always == ConnectionRange

connection_range == IF bench THEN ConnectionRange ELSE << >>

(***************************************************************************)
(* log_check, check, collect_stats: the callees, as functions of the       *)
(* globals they read to the globals they leave and the exception raised.   *)
(***************************************************************************)
\* Mutant of log_check: without the assert, so a second value overwrites.
log_check_overwrite(message, value) ==
    [ exc |-> NoExc,
      CHECKS |->
          [ m \in DOMAIN CHECKS \cup {message} |->
              IF m = message THEN value ELSE CHECKS[m] ] ]

log_check(message, value) ==
    IF message \in DOMAIN CHECKS
    THEN [exc |-> Exc("AssertionError", "log_check"), CHECKS |-> CHECKS]
    ELSE [exc |-> NoExc, CHECKS |-> CHECKS @@ (message :> value)]

\* Mutant of check: except Exception in place of except AssertionError.
check_catch_all(func, outcome) ==
    log_check(Doc[func], IF outcome = "returns" THEN << "Good" >> ELSE << "Bad" >>)

check(func, outcome) ==
    CASE outcome = "AssertionError" -> log_check(Doc[func], << "Bad" >>)
      [] outcome = "returns" -> log_check(Doc[func], << "Good" >>)
      [] OTHER -> [exc |-> Exc(outcome, func), CHECKS |-> CHECKS]

\* Mutant of NewSince: the subtraction is forgotten.
NewSinceTotal(total, prev_total) == total

\* stats.x_new = stats.x_total - prev_stats.x_total
NewSince(total, prev_total) == total - prev_total

\* The Stats record collect_stats builds and fills in: cpu is docker's
\* total_usage, treq and terr the globals' values at the call, stats_list
\* the value of STATS.
NewStats(stats_list, cpu, treq, terr, message, connections, latency_50p_ms, latency_90p_ms, latency_99p_ms, requests_per_s) ==
    LET stats ==
            [ message |-> message,
              cpu_total_s |-> cpu,
              cpu_new_s |-> None,
              requests_total |-> treq,
              requests_new |-> None,
              request_errors_total |-> terr,
              request_errors_new |-> None,
              connections |-> connections,
              latency_50p_ms |-> latency_50p_ms,
              latency_90p_ms |-> latency_90p_ms,
              latency_99p_ms |-> latency_99p_ms,
              requests_per_s |-> requests_per_s ]
        prev_stats == stats_list[Len(stats_list)]
    IN  IF stats_list # << >>
        THEN [ stats EXCEPT
                 !.cpu_new_s =
                     Some(NewSince(stats.cpu_total_s, prev_stats.cpu_total_s)),
                 !.requests_new =
                     Some(NewSince(stats.requests_total,
                                   prev_stats.requests_total)),
                 !.request_errors_new =
                     Some(NewSince(stats.request_errors_total,
                                   prev_stats.request_errors_total)) ]
        ELSE stats

\* collect_stats: found is FALSE when container.stats raises NotFound.
collect_stats(found, treq, terr, message, connections, latency_50p_ms, latency_90p_ms, latency_99p_ms, requests_per_s) ==
    IF ~found
    THEN [exc |-> ContainerDied(connections), STATS |-> STATS]
    ELSE [ exc |-> NoExc,
           STATS |->
               Append(STATS,
                      NewStats(STATS, cpu_usage, treq, terr, message,
                               connections, latency_50p_ms, latency_90p_ms,
                               latency_99p_ms, requests_per_s)) ]

(***************************************************************************)
(* The load generator's report and run_benchmark's reading of it.  A line  *)
(* is a record: indent says whether it starts with a space (every pattern  *)
(* begins with ' +'); a latency line carries its percentile, the number    *)
(* printed and the unit after it (wrk prints us, ms, s, m or h).           *)
(***************************************************************************)
LatencyLine(indent, percentile, number, unit) ==
    [ kind |-> "latency", indent |-> indent, percentile |-> percentile,
      number |-> number, unit |-> unit ]

RequestsLine(indent, count) ==
    [kind |-> "requests", indent |-> indent, count |-> count]

Non2xxLine(indent, count) ==
    [kind |-> "non2xx", indent |-> indent, count |-> count]

SocketLine(indent, connect, read, write, timeout) ==
    [ kind |-> "socket", indent |-> indent, connect |-> connect,
      read |-> read, write |-> write, timeout |-> timeout ]

\* Any other line of the report (headers, Req/Sec, Transfer/sec, ...).
OtherLine(text) == [kind |-> "other", indent |-> TRUE, text |-> text]

LatencyPattern(percentile) == [kind |-> "latency", percentile |-> percentile]

RequestsPattern == [kind |-> "requests"]

Non2xxPattern == [kind |-> "non2xx"]

SocketPattern == [kind |-> "socket"]

\* re.fullmatch(pattern, line)
FullMatch(pattern, line) ==
    /\ line.kind = pattern.kind
    /\ line.indent
    /\ pattern.kind = "latency" =>
        /\ line.percentile = pattern.percentile
        /\ line.unit \in {"us", "ms", "s"}

\* match_line: the first line that matches, or None for the ValueError.
match_line(lines, pattern) ==
    LET hits == {i \in 1..Len(lines) : FullMatch(pattern, lines[i])}
    IN  IF hits = {}
        THEN None
        ELSE Some(lines[CHOOSE i \in hits : \A j \in hits : i <= j])

\* Mutant of LatencyMs: the value is taken as printed, whatever the unit.
LatencyMsAsPrinted(number, unit) == << number, 1 >>

\* A latency in milliseconds, as the exact fraction << numerator, denominator >>.
LatencyMs(number, unit) ==
    CASE unit = "s" -> << number * 1000, 1 >>
      [] unit = "us" -> << number, 1000 >>
      [] OTHER -> << number, 1 >>

\* match_latency: None for match_line's ValueError.
match_latency(lines, percentile) ==
    LET matches == match_line(lines, LatencyPattern(percentile))
    IN  IF matches = None
        THEN None
        ELSE Some(LatencyMs(matches[1].number, matches[1].unit))

\* request_errors_new: the Non-2xx line is optional.
HttpStatusErrors(lines) ==
    LET matches == match_line(lines, Non2xxPattern)
    IN  IF matches = None THEN 0 ELSE matches[1].count

\* other_errors_new: the Socket errors line is optional; all four groups
\* are summed.
SocketErrors(lines) ==
    LET matches == match_line(lines, SocketPattern)
    IN  IF matches = None
        THEN 0
        ELSE matches[1].connect + matches[1].read + matches[1].write
                + matches[1].timeout

\* Mutant of TimeoutErrors: the assert on the timeout count is gone.
TimeoutErrorsIgnored(lines) == 0

\* The timeout count the assert of run_benchmark reads (0 without the line).
TimeoutErrors(lines) ==
    LET matches == match_line(lines, SocketPattern)
    IN  IF matches = None THEN 0 ELSE matches[1].timeout

\* Mutant of ParseError: match_latency(99) gives None instead of raising.
ParseErrorNo99(lines) ==
    IF \/ match_latency(lines, 50) = None
       \/ match_latency(lines, 90) = None
       \/ match_line(lines, RequestsPattern) = None
    THEN Exc("ValueError", "match_line")
    ELSE IF TimeoutErrors(lines) # 0
         THEN Exc("AssertionError", "run_benchmark")
         ELSE NoExc

\* Mutant of ParseError: the ValueError of a missing Non-2xx or Socket
\* errors line is not caught.
ParseErrorStrict(lines) ==
    IF \/ match_latency(lines, 50) = None
       \/ match_latency(lines, 90) = None
       \/ match_latency(lines, 99) = None
       \/ match_line(lines, RequestsPattern) = None
       \/ match_line(lines, Non2xxPattern) = None
       \/ match_line(lines, SocketPattern) = None
    THEN Exc("ValueError", "match_line")
    ELSE IF TimeoutErrors(lines) # 0
         THEN Exc("AssertionError", "run_benchmark")
         ELSE NoExc

\* Lines 624-643 of run_benchmark: the exception the parsing ends with.
ParseError(lines) ==
    IF \/ match_latency(lines, 50) = None
       \/ match_latency(lines, 90) = None
       \/ match_latency(lines, 99) = None
       \/ match_line(lines, RequestsPattern) = None
    THEN Exc("ValueError", "match_line")
    ELSE IF TimeoutErrors(lines) # 0
         THEN Exc("AssertionError", "run_benchmark")
         ELSE NoExc

\* Mutant of OkRequests: line 647 is missing.
OkRequestsAll(lines) == match_line(lines, RequestsPattern)[1].count

\* Mutant of OkRequests: the socket errors are subtracted as well.
OkRequestsLessAllErrors(lines) ==
    match_line(lines, RequestsPattern)[1].count - HttpStatusErrors(lines)
        - SocketErrors(lines)

\* requests_new after line 647: only the OK requests.
OkRequests(lines) ==
    match_line(lines, RequestsPattern)[1].count - HttpStatusErrors(lines)

\* What line 649 adds to TOTAL_REQUEST_ERRORS.
ErrorsAdded(lines) == HttpStatusErrors(lines) + SocketErrors(lines)

\* duration_s
DurationS == 10

\* Mutant of Threads: always the 4 physical cores.
ThreadsAlwaysFour(connection_count) == 4

\* threads = min(connection_count, 4)
Threads(connection_count) == IF connection_count < 4 THEN connection_count ELSE 4

(***************************************************************************)
(* The program.  __main__ picks test_local or test_image from the mode.    *)
(***************************************************************************)
Modes == {"image", "local", "remote"}

\* Where test_image starts: at the log_threads calls when they are asked
\* for, else at run_container.
TestImageEntry ==
    IF log_threads_enabled THEN "log_threads_4_4" ELSE "run_container"

\* Mutant of EntryPoint: only --local is told apart from an image name.
EntryPointLocalOnly(m) == IF m = "local" THEN "http_checks" ELSE TestImageEntry

\* __main__: --local and --remote go to test_local, the rest to test_image.
EntryPoint(m) ==
    IF m \in {"local", "remote"} THEN "http_checks" ELSE TestImageEntry

Init ==
    /\ mode \in Modes
    /\ bench \in (IF mode = "image" THEN BOOLEAN ELSE {TRUE})
    /\ log_threads_enabled \in (IF mode = "image" THEN BOOLEAN ELSE {FALSE})
    /\ groups \in GroupLists
    /\ pc = EntryPoint(mode)
    /\ gi = 1
    /\ fi = 0
    /\ round = 1
    /\ attempt = 0
    /\ TOTAL_REQUESTS = 0
    /\ TOTAL_REQUEST_ERRORS = 0
    /\ STATS = << >>
    /\ CHECKS = << >>
    /\ container = "none"
    /\ stop_calls = 0
    /\ cpu_usage = 0
    /\ wrk_calls = << >>
    /\ wrk_traffic = 0
    /\ stdout = << >>
    /\ exc = NoExc
    /\ saved = NoFile
    /\ ran = << >>
    /\ collected = << >>
    /\ names = << >>
    /\ suites = << >>
    /\ out_md = << >>

\* Where control goes when a statement raises e: inside test_image's with
\* block to run_container's handlers, elsewhere out of the program.
Raised(e) ==
    /\ exc' = e
    /\ pc' = IF mode = "image" /\ container # "none" THEN "cm_exit" ELSE "raised"

\* The statement ended with exception e (NoExc: normally, go on at next).
Goes(e, next) ==
    IF e = NoExc THEN pc' = next /\ exc' = exc ELSE Raised(e)

\* A log_threads(dockerc, session, run_opts, message, ...) statement of
\* test_image: a container of its own is run, waited for, listed and
\* killed.  Its failures leave test_image, which has no handler around it.
LogThreadsAt(at, message, next) ==
    /\ pc = at
    /\ \/ /\ Raised(Exc("DockerException", "containers.run"))
          /\ UNCHANGED << TOTAL_REQUESTS, CHECKS >>
       \/ /\ Raised(Exc("AssertionError", "wait_for_container_ready"))
          /\ UNCHANGED << TOTAL_REQUESTS, CHECKS >>
       \/ /\ TOTAL_REQUESTS' = TOTAL_REQUESTS + 1
          /\ LET res == log_check(message, << "processes" >>)
             IN  CHECKS' = res.CHECKS /\ Goes(res.exc, next)
    /\ UNCHANGED << mode, bench, log_threads_enabled, groups, names, suites, out_md, stop_calls, attempt, gi, fi, round,
                    TOTAL_REQUEST_ERRORS, STATS, container, cpu_usage,
                    wrk_calls, wrk_traffic, stdout, saved, ran, collected >>

LogThreads4Soft4 ==
    LogThreadsAt("log_threads_4_4",
                 "Threads with 4 online vCPUs, 4.0 soft CPU limit",
                 "log_threads_4_1")

LogThreads4Soft1 ==
    LogThreadsAt("log_threads_4_1",
                 "Threads with 4 online vCPUs, 1.0 soft CPU limit (benchmarked)",
                 "log_threads_1_1")

LogThreads1Soft1 ==
    LogThreadsAt("log_threads_1_1",
                 "Threads with 1 online vCPU, 1.0 soft CPU limit",
                 "run_container")

\* run_container up to its yield: dockerc.containers.run.
StartContainer ==
    /\ pc = "run_container"
    /\ \/ container' = "running" /\ Goes(NoExc, "wait_ready")
       \/ container' = container
          /\ Goes(Exc("DockerException", "containers.run"), "wait_ready")
    /\ UNCHANGED << mode, bench, log_threads_enabled, groups, names, suites, out_md, stop_calls, attempt, gi, fi, round, TOTAL_REQUESTS,
                    TOTAL_REQUEST_ERRORS, STATS, CHECKS, cpu_usage, wrk_calls, wrk_traffic,
                    stdout, saved, ran, collected >>

\* wait_for_container_ready(session): an attempt gets through, or none does.
WaitForContainerReady ==
    /\ pc = "wait_ready"
    /\ \/ /\ TOTAL_REQUESTS' = TOTAL_REQUESTS + 1
          /\ cpu_usage' = cpu_usage + 1
          /\ Goes(NoExc, "log_startup")
       \/ /\ UNCHANGED << TOTAL_REQUESTS, cpu_usage >>
          /\ Goes(Exc("AssertionError", "wait_for_container_ready"),
                  "log_startup")
    /\ UNCHANGED << mode, bench, log_threads_enabled, groups, names, suites, out_md, stop_calls, attempt, gi, fi, round, TOTAL_REQUEST_ERRORS,
                    STATS, CHECKS, container, wrk_calls, wrk_traffic, stdout, saved, ran,
                    collected >>

\* A log_check(message, value) statement of test_image.
LogCheckAt(at, message, value, next) ==
    /\ pc = at
    /\ LET res == log_check(message, value)
       IN  CHECKS' = res.CHECKS /\ Goes(res.exc, next)
    /\ UNCHANGED << mode, bench, log_threads_enabled, groups, names, suites, out_md, stop_calls, attempt, gi, fi, round, TOTAL_REQUESTS,
                    TOTAL_REQUEST_ERRORS, STATS, container, cpu_usage,
                    wrk_calls, wrk_traffic, stdout, saved, ran, collected >>

LogStartupTime ==
    LogCheckAt("log_startup", "Startup time (to start responding) secs",
               << "secs" >>, "stats_startup")

LogImageSize ==
    LogCheckAt("log_image_size", "Docker image size (MB)", << "MB" >>,
               "check_logs_on_startup")

\* A collect_stats(container, message) statement of test_image.
CollectStatsAt(at, message, next) ==
    /\ pc = at
    /\ \E found \in BOOLEAN :
          LET res ==
                  collect_stats(found, TOTAL_REQUESTS, TOTAL_REQUEST_ERRORS,
                                message, None, None, None, None, None)
          IN  /\ STATS' = res.STATS
              /\ container' = IF found THEN container ELSE "died"
              /\ collected' =
                    IF found THEN Append(collected, << message, None >>)
                    ELSE collected
              /\ Goes(res.exc, next)
    /\ UNCHANGED << mode, bench, log_threads_enabled, groups, names, suites, out_md, stop_calls, attempt, gi, fi, round, TOTAL_REQUESTS,
                    TOTAL_REQUEST_ERRORS, CHECKS, cpu_usage, wrk_calls, wrk_traffic, stdout,
                    saved, ran >>

CollectStatsAfterStartup ==
    CollectStatsAt("stats_startup", "After startup", "log_image_size")

CollectStatsAfterHttpChecks ==
    CollectStatsAt("stats_http", "After HTTP checks",
                   IF connection_range = << >> THEN "final_check" ELSE "bench")

\* check(logs_on_startup, container)
CheckLogsOnStartup ==
    /\ pc = "check_logs_on_startup"
    /\ \E outcome \in Outcomes("logs_on_startup") :
          LET res == check("logs_on_startup", outcome)
          IN  /\ CHECKS' = res.CHECKS
              /\ ran' = Append(ran, << "logs_on_startup", outcome >>)
              /\ Goes(res.exc, "check_logs_each_request")
    /\ UNCHANGED << mode, bench, log_threads_enabled, groups, names, suites, out_md, stop_calls, attempt, gi, fi, round, TOTAL_REQUESTS,
                    TOTAL_REQUEST_ERRORS, STATS, container, cpu_usage,
                    wrk_calls, wrk_traffic, stdout, saved, collected >>

\* check(logs_each_request, container, session): the function counts its
\* request once session.get has returned, before its assert.
CheckLogsEachRequest ==
    /\ pc = "check_logs_each_request"
    /\ \E outcome \in Outcomes("logs_each_request") :
          LET res == check("logs_each_request", outcome)
              got == outcome # "ConnectionError"
          IN  /\ CHECKS' = res.CHECKS
              /\ TOTAL_REQUESTS' = TOTAL_REQUESTS + (IF got THEN 1 ELSE 0)
              /\ cpu_usage' = cpu_usage + (IF got THEN 1 ELSE 0)
              /\ ran' = Append(ran, << "logs_each_request", outcome >>)
              /\ Goes(res.exc, "http_checks")
    /\ UNCHANGED << mode, bench, log_threads_enabled, groups, names, suites, out_md, stop_calls, attempt, gi, fi, round, TOTAL_REQUEST_ERRORS,
                    STATS, container, wrk_calls, wrk_traffic, stdout, saved, collected >>

\* Mutant of HttpNextGroup: a group that is not registered is passed over.
HttpNextGroupSkipsUnknown ==
    /\ pc = "http_checks"
    /\ fi = 0
    /\ IF gi > Len(groups)
       THEN /\ Goes(NoExc, IF mode = "image" THEN "stats_http" ELSE "done")
            /\ UNCHANGED << gi, fi >>
       ELSE IF groups[gi] \notin DOMAIN HTTP_CHECK_FUNCS
            THEN /\ Goes(NoExc, "http_checks")
                 /\ gi' = gi + 1 /\ fi' = 0
            ELSE /\ Goes(NoExc, "http_checks")
                 /\ IF Len(HTTP_CHECK_FUNCS[groups[gi]]) = 0
                    THEN gi' = gi + 1 /\ fi' = 0
                    ELSE gi' = gi /\ fi' = 1
    /\ UNCHANGED << mode, bench, log_threads_enabled, groups, names, suites, out_md, stop_calls, attempt, round, TOTAL_REQUESTS,
                    TOTAL_REQUEST_ERRORS, STATS, CHECKS, container, cpu_usage,
                    wrk_calls, wrk_traffic, stdout, saved, ran, collected >>

\* perform_http_checks, top of the loop over groups: the loop ends, the
\* group is unknown, or its functions are taken up.
HttpNextGroup ==
    /\ pc = "http_checks"
    /\ fi = 0
    /\ IF gi > Len(groups)
       THEN /\ Goes(NoExc, IF mode = "image" THEN "stats_http" ELSE "done")
            /\ UNCHANGED << gi, fi >>
       ELSE IF groups[gi] \notin DOMAIN HTTP_CHECK_FUNCS
            THEN /\ Goes(Exc("ValueError", "perform_http_checks"), "http_checks")
                 /\ UNCHANGED << gi, fi >>
            ELSE /\ Goes(NoExc, "http_checks")
                 /\ IF Len(HTTP_CHECK_FUNCS[groups[gi]]) = 0
                    THEN gi' = gi + 1 /\ fi' = 0
                    ELSE gi' = gi /\ fi' = 1
    /\ UNCHANGED << mode, bench, log_threads_enabled, groups, names, suites, out_md, stop_calls, attempt, round, TOTAL_REQUESTS,
                    TOTAL_REQUEST_ERRORS, STATS, CHECKS, container, cpu_usage,
                    wrk_calls, wrk_traffic, stdout, saved, ran, collected >>

\* perform_http_checks, one turn of the loop over a group's functions:
\* check(func, session), then TOTAL_REQUESTS += 1.
HttpCheck ==
    /\ pc = "http_checks"
    /\ fi >= 1
    /\ LET funcs == HTTP_CHECK_FUNCS[groups[gi]]
           func == funcs[fi]
       IN  /\ \E outcome \in Outcomes(func) :
                 LET res == check(func, outcome)
                 IN  /\ CHECKS' = res.CHECKS
                     /\ ran' = Append(ran, << func, outcome >>)
                     /\ cpu_usage' =
                           cpu_usage + (IF outcome = "ConnectionError" THEN 0 ELSE 1)
                     /\ TOTAL_REQUESTS' =
                           TOTAL_REQUESTS + (IF res.exc = NoExc THEN 1 ELSE 0)
                     /\ Goes(res.exc, "http_checks")
                     /\ IF res.exc # NoExc
                        THEN UNCHANGED << gi, fi >>
                        ELSE IF fi < Len(funcs)
                             THEN gi' = gi /\ fi' = fi + 1
                             ELSE gi' = gi + 1 /\ fi' = 0
    /\ UNCHANGED << mode, bench, log_threads_enabled, groups, names, suites, out_md, stop_calls, attempt, round, TOTAL_REQUEST_ERRORS, STATS,
                    container, wrk_calls, wrk_traffic, stdout, saved, collected >>

(***************************************************************************)
(* The reports the load generator prints.  WrkReport lays the lines out as *)
(* wrk does; each argument is the (possibly empty) list of lines printed   *)
(* at that place.                                                          *)
(***************************************************************************)
WrkReport(l50, l90, l99, req, non2xx, sock) ==
    << OtherLine("Running 10s test"), OtherLine("Latency Distribution") >>
        \o l50 \o << LatencyLine(TRUE, 75, 75, "ms") >> \o l90 \o l99 \o req
        \o non2xx \o sock \o << OtherLine("Requests/sec") >>

\* The p% line of a healthy run.
Latency(p) == << LatencyLine(TRUE, p, p, "ms") >>

\* The Non-2xx line is printed only when there are such responses.
Non2xx(count) == IF count = 0 THEN << >> ELSE << Non2xxLine(TRUE, count) >>

\* The reports of the sweep of Spec: requests of which some are answered
\* with an error status, and a report cut short before the 99% line.
\* SpecBench reads the other shapes of report.
SweepReports ==
    UNION { { WrkReport(Latency(50), Latency(90), Latency(99),
                        << RequestsLine(TRUE, r) >>, Non2xx(e), << >>) :
              e \in 0..r } :
            r \in 0..MaxSweepTraffic }
        \cup
    {WrkReport(Latency(50), Latency(90), << >>, << >>, << >>, << >>)}

\* The requests a report accounts for: the ones completed and the ones
\* that failed on the socket.
RECURSIVE ReportTraffic(_)
ReportTraffic(lines) ==
    IF lines = << >>
    THEN 0
    ELSE LET line == Head(lines)
             here ==
                 CASE line.kind = "requests" -> line.count
                   [] line.kind = "socket" ->
                        line.connect + line.read + line.write + line.timeout
                   [] OTHER -> 0
         IN  here + ReportTraffic(Tail(lines))

\* run_benchmark(container, connection_count, bench_url) when wrk prints
\* out: the parse, the update of the totals, collect_stats.
run_benchmark(out) ==
    /\ pc = "bench"
    /\ LET connection_count == connection_range[round]
           e == ParseError(out)
       IN  /\ wrk_calls' =
                 Append(wrk_calls,
                        [ connections |-> connection_count,
                          threads |-> Threads(connection_count) ])
           /\ wrk_traffic' = wrk_traffic + ReportTraffic(out)
           /\ cpu_usage' = cpu_usage + ReportTraffic(out)
           /\ stdout' = out
           /\ IF e # NoExc
              THEN /\ Raised(e)
                   /\ UNCHANGED << round, TOTAL_REQUESTS, TOTAL_REQUEST_ERRORS,
                                   STATS, container, collected >>
              ELSE \E found \in BOOLEAN :
                      LET requests_new == OkRequests(out)
                          treq == TOTAL_REQUESTS + requests_new
                          terr == TOTAL_REQUEST_ERRORS + ErrorsAdded(out)
                          res ==
                              collect_stats(found, treq, terr, "Bench",
                                            Some(connection_count),
                                            match_latency(out, 50),
                                            match_latency(out, 90),
                                            match_latency(out, 99),
                                            Some(<< requests_new, DurationS >>))
                      IN  /\ TOTAL_REQUESTS' = treq
                          /\ TOTAL_REQUEST_ERRORS' = terr
                          /\ STATS' = res.STATS
                          /\ container' = IF found THEN container ELSE "died"
                          /\ collected' =
                                IF found
                                THEN Append(collected,
                                            << "Bench", Some(connection_count) >>)
                                ELSE collected
                          /\ IF res.exc # NoExc
                             THEN Raised(res.exc) /\ round' = round
                             ELSE /\ round' = round + 1
                                  /\ Goes(NoExc,
                                          IF round < Len(connection_range)
                                          THEN "bench" ELSE "final_check")
    /\ UNCHANGED << mode, bench, log_threads_enabled, groups, names, suites, out_md, stop_calls, attempt, gi, fi, CHECKS, saved, ran >>

\* A round of the sweep.
RunBenchmark ==
    \E out \in SweepReports :
        /\ wrk_traffic + ReportTraffic(out) <= MaxSweepTraffic
        /\ run_benchmark(out)

\* run_benchmark when wrk exits with an error: run(..., check=True) raises.
WrkFails ==
    /\ pc = "bench"
    /\ wrk_calls' =
          Append(wrk_calls,
                 [ connections |-> connection_range[round],
                   threads |-> Threads(connection_range[round]) ])
    /\ Raised(Exc("CalledProcessError", "run"))
    /\ UNCHANGED << mode, bench, log_threads_enabled, groups, names, suites, out_md, stop_calls, attempt, gi, fi, round, TOTAL_REQUESTS,
                    TOTAL_REQUEST_ERRORS, STATS, CHECKS, container, cpu_usage,
                    wrk_traffic, stdout, saved, ran, collected >>

\* http_check_plzen_cs(session), called directly at the end of the body,
\* when the sweep may have worn the service out.
FinalHttpCheck ==
    /\ pc = "final_check"
    /\ \E outcome \in AllOutcomes :
          /\ cpu_usage' =
                cpu_usage + (IF outcome = "ConnectionError" THEN 0 ELSE 1)
          /\ Goes(IF outcome = "returns" THEN NoExc
                  ELSE Exc(outcome, "http_check_plzen_cs"), "cm_exit")
    /\ UNCHANGED << mode, bench, log_threads_enabled, groups, names, suites, out_md, stop_calls, attempt, gi, fi, round, TOTAL_REQUESTS,
                    TOTAL_REQUEST_ERRORS, STATS, CHECKS, container, wrk_calls,
                    wrk_traffic, stdout, saved, ran, collected >>

\* How container.stop(timeout=15) can end: in time, late, or with
\* docker.errors.NotFound when the container is already gone.
StopOutcomes == {"in time", "late", "NotFound"}

\* run_container after its yield: the except ContainerDied clause and the
\* finally clause.  A return in finally drops the exception in flight.
RunContainerExit ==
    /\ pc = "cm_exit"
    /\ IF exc.type = "ContainerDied"
       THEN LET res ==
                    log_check("Stops gracefully",
                              << "Very Bad, probably died after", exc.connections >>)
            IN  /\ CHECKS' = res.CHECKS
                /\ container' = container
                /\ stop_calls' = stop_calls
                /\ exc' = res.exc
                /\ pc' = IF res.exc = NoExc THEN "save_results" ELSE "raised"
       ELSE /\ stop_calls' = stop_calls + 1
            /\ \E outcome \in StopOutcomes :
               IF outcome = "NotFound"
               THEN /\ exc' = Exc("NotFound", "container.stop")
                    /\ pc' = "raised"
                    /\ UNCHANGED << CHECKS, container >>
               ELSE LET res ==
                            log_check("Stops gracefully",
                                      IF outcome = "in time"
                                      THEN << "Good, in" >>
                                      ELSE << "Bad, did not stop in" >>)
                    IN  /\ CHECKS' = res.CHECKS
                        /\ container' = "stopped"
                        /\ exc' = IF res.exc # NoExc THEN res.exc ELSE exc
                        /\ pc' = IF res.exc = NoExc /\ exc = NoExc
                                 THEN "save_results" ELSE "raised"
    /\ UNCHANGED << mode, bench, log_threads_enabled, groups, names, suites, out_md, attempt, gi, fi, round, TOTAL_REQUESTS,
                    TOTAL_REQUEST_ERRORS, STATS, cpu_usage, wrk_calls,
                    wrk_traffic, stdout, saved, ran, collected >>

\* dataclasses.asdict(s)
asdict(s) == [f \in DOMAIN s |-> s[f]]

\* Mutant of Payload: the last Stats record is left out.
PayloadDropsLast ==
    [ checks |-> CHECKS,
      stats |-> [i \in 1..(Len(STATS) - 1) |-> asdict(STATS[i])] ]

\* The payload save_results builds and dumps.
Payload ==
    [checks |-> CHECKS, stats |-> [i \in 1..Len(STATS) |-> asdict(STATS[i])]]

\* save_results(bench_outfile)
SaveResults ==
    /\ pc = "save_results"
    /\ saved' = Some(Payload)
    /\ pc' = "done"
    /\ UNCHANGED << mode, bench, log_threads_enabled, groups, names, suites, out_md, stop_calls, attempt, gi, fi, round, TOTAL_REQUESTS,
                    TOTAL_REQUEST_ERRORS, STATS, CHECKS, container, cpu_usage,
                    wrk_calls, wrk_traffic, stdout, exc, ran, collected >>

(***************************************************************************)
(* SpecBench: one round of run_benchmark, the second of a sweep, on every  *)
(* shape of report.  It starts where test_image stands after a first round *)
(* of r0 requests of which e0 were answered with an error status.          *)
(***************************************************************************)
\* The p% line, in one of the units the pattern accepts.
BenchLatency(p) ==
    << LatencyLine(TRUE, p, p, CASE p = 90 -> "us" [] p = 99 -> "s" [] OTHER -> "ms") >>

\* Socket error counts tried by SpecBench.
SocketCounts == {0, 1}

BenchReports ==
    { WrkReport(l50, l90, l99, req, non2xx, sock) :
        l50 \in { BenchLatency(50), << >>,
                  << LatencyLine(TRUE, 50, 2, "m") >>,
                  << LatencyLine(FALSE, 50, 50, "ms") >>,
                  << LatencyLine(FALSE, 50, 7, "us"),
                     LatencyLine(TRUE, 50, 3, "m"),
                     LatencyLine(TRUE, 50, 5, "s"),
                     LatencyLine(TRUE, 50, 9, "ms") >> },
        l90 \in {BenchLatency(90), << >>},
        l99 \in {BenchLatency(99), << >>},
        req \in {<< >>, << RequestsLine(FALSE, 1) >>}
                  \cup {<< RequestsLine(TRUE, r) >> : r \in 0..MaxCount},
        non2xx \in {<< >>} \cup {<< Non2xxLine(TRUE, e) >> : e \in 1..MaxCount},
        sock \in {<< >>}
                  \cup { << SocketLine(TRUE, c, r, w, t) >> :
                         c \in SocketCounts, r \in SocketCounts,
                         w \in SocketCounts, t \in SocketCounts } }

BenchInit ==
    \E r0 \in 0..MaxCount : \E e0 \in 0..r0 :
        LET first == WrkReport(Latency(50), Latency(90), Latency(99),
                               << RequestsLine(TRUE, r0) >>, Non2xx(e0), << >>)
            s1 == NewStats(<< >>, 1, 1, 0, "After startup", None, None, None,
                           None, None)
            s2 == NewStats(<< s1 >>, 2, 2, 0, "After HTTP checks", None, None,
                           None, None, None)
            s3 == NewStats(<< s1, s2 >>, 2 + r0, 2 + r0 - e0, e0, "Bench",
                           Some(1), Some(<< 50, 1 >>), Some(<< 90, 1 >>),
                           Some(<< 99, 1 >>), Some(<< r0 - e0, DurationS >>))
        IN  /\ mode = "image"
            /\ bench = TRUE
            /\ log_threads_enabled = FALSE
            /\ groups = << >>
            /\ pc = "bench"
            /\ gi = 1
            /\ fi = 0
            /\ round = 2
            /\ attempt = 0
            /\ TOTAL_REQUESTS = 2 + r0 - e0
            /\ TOTAL_REQUEST_ERRORS = e0
            /\ STATS = << s1, s2, s3 >>
            /\ CHECKS =
                  ("Startup time (to start responding) secs" :> << "secs" >>)
                    @@ ("Docker image size (MB)" :> << "MB" >>)
                    @@ (Doc["logs_on_startup"] :> << "Good" >>)
                    @@ (Doc["logs_each_request"] :> << "Good" >>)
            /\ container = "running"
            /\ stop_calls = 0
            /\ cpu_usage = 2 + r0
            /\ wrk_calls = << [connections |-> 1, threads |-> 1] >>
            /\ wrk_traffic = r0
            /\ stdout = first
            /\ exc = NoExc
            /\ saved = NoFile
            /\ ran =
                  << << "logs_on_startup", "returns" >>,
                     << "logs_each_request", "returns" >> >>
            /\ collected =
                  << << "After startup", None >>, << "After HTTP checks", None >>,
                     << "Bench", Some(1) >> >>
            /\ names = << >>
            /\ suites = << >>
            /\ out_md = << >>

\* The second round of the sweep.
BenchRound ==
    /\ pc = "bench"
    /\ round = 2
    /\ \E out \in BenchReports : run_benchmark(out)

NextBench == BenchRound

SpecBench == BenchInit /\ [][NextBench]_vars

(***************************************************************************)
(* SpecReady: wait_for_container_ready turn by turn, as test_image calls   *)
(* it inside the with block.  session.get(URL_PREFIX) returns or raises    *)
(* requests.exceptions.ConnectionError; the loop does not stop between     *)
(* turns, which is the fairness of SpecReady.                              *)
(***************************************************************************)
\* timeout, in seconds
ReadyTimeout == 15

\* range(timeout * 100)
ReadyAttempts == ReadyTimeout * 100

\* Mutant of RequestsCounted: TOTAL_REQUESTS += 1 sits before session.get.
RequestsCountedAlways(connected) == 1

\* What a turn adds to TOTAL_REQUESTS: the increment follows session.get
\* inside the try, so a turn that raises skips it.
RequestsCounted(connected) == IF connected THEN 1 ELSE 0

\* The requests made before wait_for_container_ready: those of the three
\* log_threads calls, if any.
RequestsBeforeReady == IF log_threads_enabled THEN 3 ELSE 0

ReadyInit ==
    /\ mode = "image"
    /\ bench \in BOOLEAN
    /\ log_threads_enabled \in BOOLEAN
    /\ groups = AllGroups
    /\ pc = "wait_ready"
    /\ gi = 1
    /\ fi = 0
    /\ round = 1
    /\ attempt = 0
    /\ TOTAL_REQUESTS = RequestsBeforeReady
    /\ TOTAL_REQUEST_ERRORS = 0
    /\ STATS = << >>
    /\ CHECKS =
          IF log_threads_enabled
          THEN ("Threads with 4 online vCPUs, 4.0 soft CPU limit"
                    :> << "processes" >>)
                 @@ ("Threads with 4 online vCPUs, 1.0 soft CPU limit (benchmarked)"
                    :> << "processes" >>)
                 @@ ("Threads with 1 online vCPU, 1.0 soft CPU limit"
                    :> << "processes" >>)
          ELSE << >>
    /\ container = "running"
    /\ stop_calls = 0
    /\ cpu_usage = 0
    /\ wrk_calls = << >>
    /\ wrk_traffic = 0
    /\ stdout = << >>
    /\ exc = NoExc
    /\ saved = NoFile
    /\ ran = << >>
    /\ collected = << >>
    /\ names = << >>
    /\ suites = << >>
    /\ out_md = << >>

\* One turn of the loop: session.get returns and the function returns, or
\* it raises ConnectionError and the loop sleeps and goes on.
ReadyAttempt ==
    /\ pc = "wait_ready"
    /\ attempt < ReadyAttempts
    /\ attempt' = attempt + 1
    /\ \E connected \in BOOLEAN :
          /\ TOTAL_REQUESTS' = TOTAL_REQUESTS + RequestsCounted(connected)
          /\ cpu_usage' = cpu_usage + (IF connected THEN 1 ELSE 0)
          /\ IF connected
             THEN Goes(NoExc, "log_startup")
             ELSE UNCHANGED << pc, exc >>
    /\ UNCHANGED << mode, bench, log_threads_enabled, groups, names, suites, out_md, stop_calls, gi, fi, round,
                    TOTAL_REQUEST_ERRORS, STATS, CHECKS, container, wrk_calls,
                    wrk_traffic, stdout, saved, ran, collected >>

\* The loop is exhausted: raise AssertionError.
ReadyGivesUp ==
    /\ pc = "wait_ready"
    /\ attempt = ReadyAttempts
    /\ Raised(Exc("AssertionError", "wait_for_container_ready"))
    /\ UNCHANGED << mode, bench, log_threads_enabled, groups, names, suites, out_md, stop_calls, gi, fi, round,
                    attempt, TOTAL_REQUESTS, TOTAL_REQUEST_ERRORS, STATS,
                    CHECKS, container, cpu_usage, wrk_calls, wrk_traffic,
                    stdout, saved, ran, collected >>

NextReady == ReadyAttempt \/ ReadyGivesUp

SpecReady == ReadyInit /\ [][NextReady]_vars /\ WF_vars(NextReady)

(***************************************************************************)
(* SpecRender: render_checks of render-tests.py on the suites that         *)
(* test-image.py saved.  A JSON value is << type, text, number >>: a str   *)
(* has its text, a float its value in thousandths; a Python str that       *)
(* sanitize returns is << "str", text, 0 >> for a text, << "int", "", n >> *)
(* for the digits of the integer n and << "float", "", m >> for the repr   *)
(* of the float m / 1000.                                                  *)
(***************************************************************************)
PyStr(text) == << "str", text, 0 >>

PyFloat(thousandths) == << "float", "", thousandths >>

\* None, what dict.get gives for a missing key.
PyNone == << "NoneType", "", 0 >>

\* The number of decimal digits of n > 0.
RECURSIVE Digits(_)
Digits(n) == IF n < 10 THEN 1 ELSE 1 + Digits(n \div 10)

RECURSIVE Pow10(_)
Pow10(k) == IF k = 0 THEN 1 ELSE 10 * Pow10(k - 1)

\* float(f'{value:.3g}'): value, in thousandths, rounded to 3 significant
\* figures.
Round3g(thousandths) ==
    IF thousandths = 0 \/ Digits(thousandths) <= 3
    THEN thousandths
    ELSE LET unit == Pow10(Digits(thousandths) - 3)
         IN  ((thousandths + unit \div 2) \div unit) * unit

\* render_checks.sanitize
sanitize(value) ==
    CASE value[1] = "float" ->
            LET rounded == Round3g(value[3])
            IN  IF rounded >= 100000
                THEN << "int", "", rounded \div 1000 >>
                ELSE << "float", "", rounded >>
      [] value[1] = "NoneType" -> PyStr("None")
      [] OTHER -> value

\* Check names, in the order Python's sorted() puts them (by code point).
CheckNamesSorted ==
    << "Docker image size (MB)",
       "Startup time (to start responding) secs",
       "Stops gracefully" >>

Rank(check_name) == CHOOSE i \in 1..Len(CheckNamesSorted) : CheckNamesSorted[i] = check_name

\* sorted(S) for a set of check names.
Sorted(S) ==
    CHOOSE seq \in [1..Cardinality(S) -> S] :
        \A i, j \in 1..Cardinality(S) : i < j => Rank(seq[i]) < Rank(seq[j])

\* dict.get(key)
Get(dict, key) == IF key \in DOMAIN dict THEN dict[key] ELSE PyNone

\* per_impl_checks = {name: suite['checks'] for name, suite in suites.items()}
per_impl_checks(suites_) == [name \in DOMAIN suites_ |-> suites_[name].checks]

\* Mutant of check_names: only the first suite's checks are listed.
check_names_of_first(names_, suites_) ==
    IF names_ = << >> THEN << >> ELSE Sorted(DOMAIN suites_[names_[1]].checks)

\* check_names = sorted(set().union(*(checks.keys() for checks in ...)))
check_names(names_, suites_) ==
    Sorted(UNION {DOMAIN per_impl_checks(suites_)[name] : name \in DOMAIN suites_})

\* The row printed for check_name: its cells are [bold, value].
Row(names_, suites_, check_name) ==
    LET values ==
            [ i \in 1..Len(names_) |->
                sanitize(Get(per_impl_checks(suites_)[names_[i]], check_name)) ]
        emphasize ==
            Len(values) > 1 /\ Cardinality({values[i] : i \in 1..Len(values)}) > 1
    IN  [ kind |-> "row",
          check_name |-> check_name,
          values |->
              [ i \in 1..Len(values) |->
                  [bold |-> emphasize, value |-> values[i]] ] ]

\* render_checks(names, suites, out): the lines it prints.
render_checks(names_, suites_) ==
    LET rows == check_names(names_, suites_)
    IN  << [kind |-> "header", cells |-> << "Check" >> \o names_],
           [kind |-> "separator", cells |-> [i \in 1..(Len(names_) + 1) |-> "---"]] >>
          \o [i \in 1..Len(rows) |-> Row(names_, suites_, rows[i])]

\* Names a suite can have, in the order natsorted() puts them.
SuiteNames == << "go", "kotlin", "rs-actix", "rs-warp" >>

\* natsorted(S) for a set of suite names.
natsorted(S) ==
    CHOOSE seq \in [1..Cardinality(S) -> S] :
        \A i, j \in 1..Cardinality(S) :
            i < j => \E a, b \in 1..Len(SuiteNames) :
                        a < b /\ SuiteNames[a] = seq[i] /\ SuiteNames[b] = seq[j]

\* The checks of a suite test-image.py saved: an image size, a startup
\* time or none, and how the container stopped.
SuiteChecks ==
    { size @@ startup @@ stops :
        size \in { ("Docker image size (MB)" :> PyFloat(123456)),
                   ("Docker image size (MB)" :> PyFloat(123411)) },
        startup \in { << >>,
                      ("Startup time (to start responding) secs" :> PyFloat(1234)),
                      ("Startup time (to start responding) secs" :> PyFloat(1231)),
                      ("Startup time (to start responding) secs" :> PyFloat(1238)) },
        stops \in { ("Stops gracefully" :> PyStr("Good, in 0.3s")),
                    ("Stops gracefully" :> PyStr("Bad, did not stop in 15.0s")) } }

RenderInit ==
    /\ mode = "render"
    /\ bench = TRUE
    /\ log_threads_enabled = FALSE
    /\ groups = << >>
    /\ pc = "render_checks"
    /\ gi = 1
    /\ fi = 0
    /\ round = 1
    /\ attempt = 0
    /\ TOTAL_REQUESTS = 0
    /\ TOTAL_REQUEST_ERRORS = 0
    /\ STATS = << >>
    /\ CHECKS = << >>
    /\ container = "none"
    /\ stop_calls = 0
    /\ cpu_usage = 0
    /\ wrk_calls = << >>
    /\ wrk_traffic = 0
    /\ stdout = << >>
    /\ exc = NoExc
    /\ saved = NoFile
    /\ ran = << >>
    /\ collected = << >>
    /\ \E found \in SUBSET {SuiteNames[i] : i \in 1..Len(SuiteNames)} :
          /\ Cardinality(found) <= MaxSuites
          /\ suites \in [found -> [checks : SuiteChecks, stats : {<< >>}]]
          /\ names = natsorted(DOMAIN suites)
    /\ out_md = << >>

\* render_checks(names, suites, out), called by render.
RenderChecks ==
    /\ pc = "render_checks"
    /\ out_md' = out_md \o render_checks(names, suites)
    /\ pc' = "done"
    /\ UNCHANGED << mode, bench, log_threads_enabled, groups, names, suites,
                    stop_calls, attempt, gi, fi, round, TOTAL_REQUESTS,
                    TOTAL_REQUEST_ERRORS, STATS, CHECKS, container, cpu_usage,
                    wrk_calls, wrk_traffic, stdout, exc, saved, ran, collected >>

NextRender == RenderChecks

SpecRender == RenderInit /\ [][NextRender]_vars

Next ==
    \/ LogThreads4Soft4
    \/ LogThreads4Soft1
    \/ LogThreads1Soft1
    \/ StartContainer
    \/ WaitForContainerReady
    \/ LogStartupTime
    \/ CollectStatsAfterStartup
    \/ LogImageSize
    \/ CheckLogsOnStartup
    \/ CheckLogsEachRequest
    \/ HttpNextGroup
    \/ HttpCheck
    \/ CollectStatsAfterHttpChecks
    \/ RunBenchmark
    \/ WrkFails
    \/ FinalHttpCheck
    \/ RunContainerExit
    \/ SaveResults

Spec == Init /\ [][Next]_vars
(***************************************************************************)
(* Properties.                                                             *)
(***************************************************************************)
\* The Stats records with message 'Bench', in the order of STATS.
BenchStats == SelectSeq(STATS, LAMBDA s : s.message = "Bench")

\* C1: the first Stats record appended to STATS has cpu_new_s, requests_new
\* and request_errors_new unset, and every later record has each of them
\* equal to its own total minus the total of the record right before it;
\* STATS holds one record per collect_stats call that returned, in order.
C1_Deltas ==
    /\ Len(STATS) = Len(collected)
    /\ \A i \in 1..Len(STATS) :
          /\ STATS[i].message = collected[i][1]
          /\ IF i = 1
             THEN /\ STATS[i].cpu_new_s = None
                  /\ STATS[i].requests_new = None
                  /\ STATS[i].request_errors_new = None
             ELSE /\ STATS[i].cpu_new_s =
                        Some(STATS[i].cpu_total_s - STATS[i - 1].cpu_total_s)
                  /\ STATS[i].requests_new =
                        Some(STATS[i].requests_total - STATS[i - 1].requests_total)
                  /\ STATS[i].request_errors_new =
                        Some(STATS[i].request_errors_total
                                - STATS[i - 1].request_errors_total)

\* C1 witness: three records, the later two with requests, errors and CPU
\* time that are new since the record before.
C1_Witness ==
    /\ Len(STATS) >= 4
    /\ STATS[2].requests_new = Some(4)
    /\ STATS[2].cpu_new_s = Some(4)
    /\ \E i \in 3..Len(STATS) : STATS[i].request_errors_new = Some(1)
    /\ STATS[Len(STATS)].request_errors_new = Some(0)

\* The connection counts of the load generator's invocations, in order.
Connections(calls) == [i \in 1..Len(calls) |-> calls[i].connections]

\* The sequence of connection counts the claim names.
C2_Sequence == << 1, 1, 1, 1, 1, 2, 4, 8, 16, 32, 64, 128, 256, 512, 1024, 2048 >>

\* s is an initial segment of t.
IsPrefix(s, t) == Len(s) <= Len(t) /\ \A i \in 1..Len(s) : s[i] = t[i]

\* C2 as stated: a test_image run with bench enabled that has returned
\* has invoked the load generator once per element of the sequence, in
\* that order, with one 'Bench' record per round; without bench no round
\* runs and no 'Bench' record is appended.
C2_Original ==
    /\ (mode = "image" /\ bench /\ pc = "done") =>
            /\ Connections(wrk_calls) = C2_Sequence
            /\ Len(BenchStats) = Len(C2_Sequence)
    /\ ~bench => wrk_calls = << >> /\ BenchStats = << >>

\* C2 as amended: with bench enabled the load generator is invoked for an
\* initial segment of the sequence, in that order; a round starts only once
\* every earlier round has appended its Stats record, whose connections
\* field is that round's count; the sweep ends at the first round that
\* raises, and is complete whenever the body gets past it, so a run that
\* returned has made all sixteen rounds unless the container died; without
\* bench no round runs and no 'Bench' record is appended.
C2_Sweep ==
    /\ bench => IsPrefix(Connections(wrk_calls), C2_Sequence)
    /\ \A i \in 1..Len(BenchStats) : BenchStats[i].connections = Some(C2_Sequence[i])
    /\ Len(BenchStats) <= Len(wrk_calls)
    /\ Len(wrk_calls) <= Len(BenchStats) + 1
    /\ pc = "bench" => Len(wrk_calls) = Len(BenchStats) /\ round = Len(wrk_calls) + 1
    /\ Len(wrk_calls) > Len(BenchStats) => exc # NoExc \/ container = "died"
    /\ (bench /\ pc = "final_check") => Connections(wrk_calls) = C2_Sequence
    /\ (mode = "image" /\ bench /\ pc = "done" /\ container # "died") =>
            /\ Connections(wrk_calls) = C2_Sequence
            /\ Len(BenchStats) = Len(C2_Sequence)
    /\ ~bench => wrk_calls = << >> /\ BenchStats = << >>

\* C2 witness: a run with bench enabled has returned after a full sweep.
C2_Witness ==
    /\ bench
    /\ pc = "done"
    /\ Len(wrk_calls) = 16
    /\ Len(BenchStats) = 16
    /\ wrk_calls[16].connections = 2048

\* C3: no step changes or removes an entry of CHECKS and no step adds more
\* than one; a log_check whose message is already a key raises
\* AssertionError and leaves CHECKS as it is; a log_check with a new
\* message adds that key with the value given.
C3_LogCheckOnce ==
    [][ /\ \A m \in DOMAIN CHECKS : m \in DOMAIN CHECKS' /\ CHECKS'[m] = CHECKS[m]
        /\ Cardinality(DOMAIN CHECKS') <= Cardinality(DOMAIN CHECKS) + 1
        /\ ( /\ ran' # ran
             /\ ran'[Len(ran')][2] # "ConnectionError"
             /\ Doc[ran'[Len(ran')][1]] \in DOMAIN CHECKS ) =>
                /\ exc' = Exc("AssertionError", "log_check")
                /\ CHECKS' = CHECKS
        /\ ( /\ ran' # ran
             /\ ran'[Len(ran')][2] # "ConnectionError"
             /\ Doc[ran'[Len(ran')][1]] \notin DOMAIN CHECKS ) =>
                /\ exc' = NoExc
                /\ DOMAIN CHECKS' = DOMAIN CHECKS \cup {Doc[ran'[Len(ran')][1]]}
        /\ pc = "log_startup" =>
                CHECKS' = CHECKS @@ ("Startup time (to start responding) secs" :> << "secs" >>)
        /\ (exc' # exc /\ exc' = Exc("AssertionError", "log_check")) =>
                CHECKS' = CHECKS
      ]_vars

\* C3 witness: log_check has refused a message that was recorded before,
\* with another value than the one then given.
C3_Witness ==
    /\ exc = Exc("AssertionError", "log_check")
    /\ Len(ran) >= 2
    /\ ran[Len(ran)] = << "http_check_associated_featured_graz", "returns" >>
    /\ Doc["http_check_associated_featured_graz"] \in DOMAIN CHECKS
    /\ CHECKS[Doc["http_check_associated_featured_graz"]] = << "Bad" >>

\* C4 as stated: a check() whose function returns or fails an assert
\* raises nothing and records exactly one new entry under the function's
\* docstring, 'Good' or 'Bad'; when the function raises anything else, that
\* exception propagates and CHECKS is left as it is.
C4_Original ==
    [][ ran' # ran =>
          LET func == ran'[Len(ran')][1]
              outcome == ran'[Len(ran')][2]
              value == IF outcome = "returns" THEN << "Good" >> ELSE << "Bad" >>
          IN  IF outcome \in {"returns", "AssertionError"}
              THEN /\ exc' = NoExc
                   /\ Doc[func] \notin DOMAIN CHECKS
                   /\ CHECKS' = CHECKS @@ (Doc[func] :> value)
              ELSE /\ exc' = Exc(outcome, func)
                   /\ CHECKS' = CHECKS
      ]_vars

\* C4 as amended: the same, for a docstring that is not yet a key of CHECKS;
\* for one that is, the AssertionError of log_check propagates from check()
\* whether the function returned or failed its assert, and CHECKS is left as
\* it is.  The function's own AssertionError never propagates.
C4_Check ==
    [][ ran' # ran =>
          LET func == ran'[Len(ran')][1]
              outcome == ran'[Len(ran')][2]
              value == IF outcome = "returns" THEN << "Good" >> ELSE << "Bad" >>
          IN  /\ exc'.origin # func \/ exc'.type # "AssertionError"
              /\ IF outcome \in {"returns", "AssertionError"}
                 THEN IF Doc[func] \notin DOMAIN CHECKS
                      THEN /\ exc' = NoExc
                           /\ CHECKS' = CHECKS @@ (Doc[func] :> value)
                      ELSE /\ exc' = Exc("AssertionError", "log_check")
                           /\ CHECKS' = CHECKS
                 ELSE /\ exc' = Exc(outcome, func)
                      /\ CHECKS' = CHECKS
      ]_vars

\* C4 witness: one check recorded 'Bad', another 'Good', and a third call
\* ended by an exception that is no AssertionError.
C4_Witness ==
    /\ Len(ran) >= 4
    /\ Doc["http_check_associated_featured_graz"] \in DOMAIN CHECKS
    /\ Doc["http_check_associated_featured_praha"] \in DOMAIN CHECKS
    /\ CHECKS[Doc["http_check_associated_featured_graz"]] = << "Bad" >>
    /\ CHECKS[Doc["http_check_associated_featured_praha"]] = << "Good" >>
    /\ ran[Len(ran)] = << "http_check_associated_featured_graz", "ConnectionError" >>
    /\ exc = Exc("ConnectionError", "http_check_associated_featured_graz")

\* lines has a line that fully matches pattern.
HasLine(lines, pattern) == \E i \in 1..Len(lines) : FullMatch(pattern, lines[i])

\* The first line of lines that fully matches pattern.
FirstLine(lines, pattern) ==
    lines[CHOOSE i \in 1..Len(lines) :
            /\ FullMatch(pattern, lines[i])
            /\ \A j \in 1..(i - 1) : ~FullMatch(pattern, lines[j])]

\* A required line is missing: the 50%, 90% or 99% latency line or the
\* 'N requests in ... read' line.
LacksRequired(lines) ==
    \/ ~HasLine(lines, LatencyPattern(50))
    \/ ~HasLine(lines, LatencyPattern(90))
    \/ ~HasLine(lines, LatencyPattern(99))
    \/ ~HasLine(lines, RequestsPattern)

\* The timeout count the report's 'Socket errors' line gives, 0 without one.
ReportedTimeouts(lines) ==
    IF HasLine(lines, SocketPattern)
    THEN FirstLine(lines, SocketPattern).timeout
    ELSE 0

\* C5: a round whose report has no line fully matching one of the required
\* patterns raises ValueError and leaves TOTAL_REQUESTS,
\* TOTAL_REQUEST_ERRORS and STATS as they were.
C5_ParseOrRaise ==
    [][ (wrk_calls' # wrk_calls /\ stdout' # stdout /\ LacksRequired(stdout')) =>
            /\ exc' = Exc("ValueError", "match_line")
            /\ UNCHANGED << TOTAL_REQUESTS, TOTAL_REQUEST_ERRORS, STATS >>
      ]_vars

\* C5 witness: a round has raised ValueError on a report that lacks only
\* its 99% line.
C5_Witness ==
    /\ Len(wrk_calls) = 2
    /\ exc = Exc("ValueError", "match_line")
    /\ HasLine(stdout, LatencyPattern(50))
    /\ HasLine(stdout, LatencyPattern(90))
    /\ ~HasLine(stdout, LatencyPattern(99))
    /\ HasLine(stdout, RequestsPattern)

\* C6: in --local and --remote modes only perform_http_checks runs: no
\* container is started or stopped, no Stats record is appended, the load
\* generator is never invoked, nothing is saved, and every check whose
\* function returned or failed an assert is a key of CHECKS.
C6_LocalFrame ==
    mode \in {"local", "remote"} =>
        /\ pc \in {"http_checks", "done", "raised"}
        /\ container = "none"
        /\ STATS = << >>
        /\ collected = << >>
        /\ wrk_calls = << >>
        /\ TOTAL_REQUEST_ERRORS = 0
        /\ saved = NoFile
        /\ \A i \in 1..Len(ran) :
              ran[i][2] # "ConnectionError" => Doc[ran[i][1]] \in DOMAIN CHECKS
        /\ \A m \in DOMAIN CHECKS : \E i \in 1..Len(ran) : m = Doc[ran[i][1]]

\* C6 witness: a --remote run has finished its three checks, one of them
\* 'Bad'.
C6_Witness ==
    /\ mode = "remote"
    /\ pc = "done"
    /\ Len(ran) = 3
    /\ Doc["http_check_associated_featured_graz"] \in DOMAIN CHECKS
    /\ CHECKS[Doc["http_check_associated_featured_graz"]] = << "Bad" >>
    /\ Cardinality(DOMAIN CHECKS) = 3

\* C7: the suite save_results writes has CHECKS as its 'checks', with
\* 'Stops gracefully' and every check recorded before, and as its 'stats'
\* one element per collect_stats call that returned, in the order of the
\* calls, each the Stats record that call appended.
C7_SavedSuite ==
    saved # NoFile =>
        LET suite == saved[1]
        IN  /\ suite.checks = CHECKS
            /\ "Stops gracefully" \in DOMAIN suite.checks
            /\ \A i \in 1..Len(ran) :
                  ran[i][2] # "ConnectionError" =>
                      Doc[ran[i][1]] \in DOMAIN suite.checks
            /\ Len(suite.stats) = Len(collected)
            /\ \A i \in 1..Len(collected) :
                  /\ suite.stats[i].message = collected[i][1]
                  /\ suite.stats[i].connections = collected[i][2]
                  /\ suite.stats[i] = STATS[i]

\* C7 witness: a suite with the eighteen Stats records of a full run, the
\* last round's among them, has been saved.
C7_Witness ==
    /\ saved # NoFile
    /\ Len(saved[1].stats) = 18
    /\ saved[1].stats[18].connections = Some(2048)
    /\ saved[1].stats[2].requests_new = Some(4)
    /\ "Stops gracefully" \in DOMAIN saved[1].checks

\* A count taken from the first line that fully matches pattern, 0 when no
\* line does.
Reported(lines, pattern, field) ==
    IF HasLine(lines, pattern) THEN FirstLine(lines, pattern)[field] ELSE 0

\* The report parses: no required line is missing and no timeout is
\* reported.
Parses(lines) == ~LacksRequired(lines) /\ ReportedTimeouts(lines) = 0

\* C8: a round whose report parses, with R requests reported, E responses
\* that are not 2xx or 3xx and C, Rd, W connect, read and write errors, adds
\* exactly R - E to TOTAL_REQUESTS and exactly E + C + Rd + W to
\* TOTAL_REQUEST_ERRORS, R + C + Rd + W in all.
C8_Accounting ==
    [][ (wrk_calls' # wrk_calls /\ stdout' # stdout /\ Parses(stdout')) =>
          LET R == Reported(stdout', RequestsPattern, "count")
              E == Reported(stdout', Non2xxPattern, "count")
              C == Reported(stdout', SocketPattern, "connect")
              Rd == Reported(stdout', SocketPattern, "read")
              W == Reported(stdout', SocketPattern, "write")
          IN  /\ TOTAL_REQUESTS' = TOTAL_REQUESTS + R - E
              /\ TOTAL_REQUEST_ERRORS' = TOTAL_REQUEST_ERRORS + E + C + Rd + W
              /\ (TOTAL_REQUESTS' + TOTAL_REQUEST_ERRORS')
                    - (TOTAL_REQUESTS + TOTAL_REQUEST_ERRORS) = R + C + Rd + W
      ]_vars

\* C8 witness: a round that reported 2 requests, 1 of them with an error
\* status, and one connect, one read and one write error has been counted.
C8_Witness ==
    /\ Len(wrk_calls) = 2
    /\ exc = NoExc
    /\ Len(STATS) = 4
    /\ Parses(stdout)
    /\ Reported(stdout, RequestsPattern, "count") = 2
    /\ Reported(stdout, Non2xxPattern, "count") = 1
    /\ Reported(stdout, SocketPattern, "connect") = 1
    /\ Reported(stdout, SocketPattern, "read") = 1
    /\ Reported(stdout, SocketPattern, "write") = 1
    /\ STATS[4].requests_new = Some(1)
    /\ STATS[4].request_errors_new = Some(4)

\* C9: the error lines are optional.  A round whose required lines are
\* there, that reports no timeout and whose container answers docker
\* raises nothing and appends its Stats record, whether or not the
\* 'Non-2xx or 3xx responses' and 'Socket errors' lines are printed; a line
\* that is not printed counts 0 errors of its kind.
C9_OptionalLines ==
    [][ ( /\ wrk_calls' # wrk_calls
          /\ stdout' # stdout
          /\ ~LacksRequired(stdout')
          /\ ReportedTimeouts(stdout') = 0
          /\ container' # "died" ) =>
            /\ exc' = NoExc
            /\ Len(STATS') = Len(STATS) + 1
            /\ STATS'[Len(STATS')].message = "Bench"
            /\ ~HasLine(stdout', Non2xxPattern) =>
                  /\ TOTAL_REQUESTS' =
                        TOTAL_REQUESTS + Reported(stdout', RequestsPattern, "count")
                  /\ TOTAL_REQUEST_ERRORS' =
                        TOTAL_REQUEST_ERRORS
                          + Reported(stdout', SocketPattern, "connect")
                          + Reported(stdout', SocketPattern, "read")
                          + Reported(stdout', SocketPattern, "write")
            /\ ~HasLine(stdout', SocketPattern) =>
                  TOTAL_REQUEST_ERRORS' =
                      TOTAL_REQUEST_ERRORS + Reported(stdout', Non2xxPattern, "count")
      ]_vars

\* C9 witness: a round whose report has neither error line has appended
\* its Stats record, with no new errors.
C9_Witness ==
    /\ Len(wrk_calls) = 2
    /\ exc = NoExc
    /\ ~HasLine(stdout, Non2xxPattern)
    /\ ~HasLine(stdout, SocketPattern)
    /\ Len(STATS) = 4
    /\ STATS[4].request_errors_new = Some(0)
    /\ STATS[4].requests_new = Some(2)

\* C10: a round whose 'Socket errors' line reports a timeout count other
\* than 0 raises before the counters are touched: TOTAL_REQUESTS,
\* TOTAL_REQUEST_ERRORS and STATS stay as they were, and the exception is
\* the AssertionError of run_benchmark whenever the required lines are
\* there.  So whatever a round adds to the counters comes from a report
\* with no timeout.
C10_NoTimeoutCounted ==
    [][ /\ ( /\ wrk_calls' # wrk_calls
             /\ stdout' # stdout
             /\ ReportedTimeouts(stdout') # 0 ) =>
                /\ exc' # NoExc
                /\ ~LacksRequired(stdout') =>
                        exc' = Exc("AssertionError", "run_benchmark")
                /\ UNCHANGED << TOTAL_REQUESTS, TOTAL_REQUEST_ERRORS, STATS >>
        /\ ( \/ TOTAL_REQUESTS' # TOTAL_REQUESTS
             \/ TOTAL_REQUEST_ERRORS' # TOTAL_REQUEST_ERRORS
             \/ STATS' # STATS ) =>
                ReportedTimeouts(stdout') = 0
      ]_vars

\* C10 witness: a round has raised AssertionError on a report with a
\* timeout next to a connect error.
C10_Witness ==
    /\ Len(wrk_calls) = 2
    /\ exc = Exc("AssertionError", "run_benchmark")
    /\ ReportedTimeouts(stdout) = 1
    /\ Reported(stdout, SocketPattern, "connect") = 1
    /\ Len(STATS) = 3

\* C11: every invocation of the load generator, with connection count c,
\* gets min(c, 4) threads: at least 1, at most 4 and at most c.
C11_Threads ==
    \A i \in 1..Len(wrk_calls) :
        LET c == wrk_calls[i].connections
            threads == wrk_calls[i].threads
        IN  /\ c >= 1
            /\ threads = (IF c <= 4 THEN c ELSE 4)
            /\ 1 <= threads
            /\ threads <= 4
            /\ threads <= c

\* C11 witness: the whole sweep has been made, with 1 thread for 1
\* connection, 2 for 2 and 4 for 4, 8 and 2048.
C11_Witness ==
    /\ Len(wrk_calls) = 16
    /\ wrk_calls[1] = [connections |-> 1, threads |-> 1]
    /\ wrk_calls[6] = [connections |-> 2, threads |-> 2]
    /\ wrk_calls[7] = [connections |-> 4, threads |-> 4]
    /\ wrk_calls[8] = [connections |-> 8, threads |-> 4]
    /\ wrk_calls[16] = [connections |-> 2048, threads |-> 4]

\* The value match_latency is to return for the percentile: that of the
\* first line of the report that fully matches the pattern, in milliseconds.
ExpectedLatencyMs(lines, percentile) ==
    LET line == FirstLine(lines, LatencyPattern(percentile))
    IN  CASE line.unit = "ms" -> << line.number, 1 >>
          [] line.unit = "s" -> << line.number * 1000, 1 >>
          [] line.unit = "us" -> << line.number, 1000 >>

\* C12: the latencies a round records are, for 50, 90 and 99, the value of
\* the first line that fully matches the percentile's pattern, in
\* milliseconds: unchanged for 'ms', times 1000 for 's', divided by 1000 for
\* 'us'; the matched line has exactly one of these three units.
C12_MatchLatency ==
    [][ (wrk_calls' # wrk_calls /\ stdout' # stdout /\ STATS' # STATS) =>
            LET stats == STATS'[Len(STATS')]
            IN  /\ \A p \in {50, 90, 99} :
                      LET unit == FirstLine(stdout', LatencyPattern(p)).unit
                      IN  Cardinality({u \in {"ms", "s", "us"} : u = unit}) = 1
                /\ stats.latency_50p_ms = Some(ExpectedLatencyMs(stdout', 50))
                /\ stats.latency_90p_ms = Some(ExpectedLatencyMs(stdout', 90))
                /\ stats.latency_99p_ms = Some(ExpectedLatencyMs(stdout', 99))
      ]_vars

\* C12 witness: a round has recorded 5000 ms for a report whose first
\* matching 50% line says 5s and whose next says 9ms, after two 50% lines
\* that do not match, with 90us and 99s for the other percentiles.
C12_Witness ==
    /\ Len(wrk_calls) = 2
    /\ Len(STATS) = 4
    /\ Cardinality({i \in 1..Len(stdout) : stdout[i].kind = "latency"
                                             /\ stdout[i].percentile = 50}) = 4
    /\ STATS[4].latency_50p_ms = Some(<< 5000, 1 >>)
    /\ STATS[4].latency_90p_ms = Some(<< 90, 1000 >>)
    /\ STATS[4].latency_99p_ms = Some(<< 99000, 1 >>)

\* Where wait_for_container_ready stands: in its loop with nothing counted
\* yet; returned, after 1 to 1500 attempts, with exactly one request
\* counted; or raising AssertionError after 1500 attempts, with none.
C13_ReadyState ==
    /\ attempt <= 1500
    /\ pc \in {"wait_ready", "log_startup", "cm_exit"}
    /\ pc = "wait_ready" =>
          exc = NoExc /\ TOTAL_REQUESTS = RequestsBeforeReady
    /\ pc = "log_startup" =>
          /\ exc = NoExc
          /\ attempt \in 1..1500
          /\ TOTAL_REQUESTS = RequestsBeforeReady + 1
    /\ pc = "cm_exit" =>
          /\ exc = Exc("AssertionError", "wait_for_container_ready")
          /\ attempt = 1500
          /\ TOTAL_REQUESTS = RequestsBeforeReady

\* C13: wait_for_container_ready terminates, after at most 1500 attempts:
\* it returns at the first attempt that connects, with TOTAL_REQUESTS one
\* higher than at the call whatever the number of refused attempts before,
\* and raises AssertionError with TOTAL_REQUESTS as at the call when all
\* 1500 attempts are refused.
C13_Ready == []C13_ReadyState /\ <>(pc # "wait_ready")

\* C13 witness: the function has returned at its 1500th attempt.
C13_Witness ==
    /\ pc = "log_startup"
    /\ attempt = 1500
    /\ TOTAL_REQUESTS = RequestsBeforeReady + 1
    /\ exc = NoExc

\* The check functions of a list of registered groups, in the order
\* perform_http_checks takes them up.
RECURSIVE FuncsOf(_)
FuncsOf(gs) ==
    IF gs = << >> THEN << >> ELSE HTTP_CHECK_FUNCS[Head(gs)] \o FuncsOf(Tail(gs))

\* The index of the first group of gs that is not registered, Len(gs) + 1
\* when all are.
FirstUnknown(gs) ==
    LET unknown == {i \in 1..Len(gs) : gs[i] \notin DOMAIN HTTP_CHECK_FUNCS}
    IN  IF unknown = {}
        THEN Len(gs) + 1
        ELSE CHOOSE i \in unknown : \A j \in unknown : i <= j

\* The functions check() was called with by perform_http_checks, in order.
HttpRan ==
    LET calls == SelectSeq(ran, LAMBDA r : r[1] \notin {"logs_on_startup", "logs_each_request"})
    IN  [i \in 1..Len(calls) |-> calls[i][1]]

\* C14: perform_http_checks takes the groups in list order: the checks it
\* has run are an initial segment of the checks of the groups before the
\* first unregistered one, so no check of that group or of a later one is
\* ever run.  On reaching the unregistered group it raises ValueError,
\* running and recording nothing; all the checks of the groups before it
\* have then been run and are recorded in CHECKS, and stay so.
C14_UnknownGroup ==
    /\ [](LET before == FuncsOf(SubSeq(groups, 1, FirstUnknown(groups) - 1))
          IN  /\ IsPrefix(HttpRan, before)
              /\ exc = Exc("ValueError", "perform_http_checks") =>
                    /\ FirstUnknown(groups) <= Len(groups)
                    /\ gi = FirstUnknown(groups)
                    /\ HttpRan = before
                    /\ \A i \in 1..Len(ran) :
                          /\ Doc[ran[i][1]] \in DOMAIN CHECKS
                          /\ CHECKS[Doc[ran[i][1]]] =
                                IF ran[i][2] = "returns"
                                THEN << "Good" >> ELSE << "Bad" >>)
    /\ [][ ( /\ pc = "http_checks"
             /\ fi = 0
             /\ gi <= Len(groups)
             /\ groups[gi] \notin DOMAIN HTTP_CHECK_FUNCS ) =>
                /\ exc' = Exc("ValueError", "perform_http_checks")
                /\ pc' \in {"raised", "cm_exit"}
                /\ UNCHANGED << ran, CHECKS, TOTAL_REQUESTS, gi >>
      ]_vars

\* C14 witness: ValueError was raised at the second group of the list,
\* after the three checks of the first were run and recorded, one as 'Bad'.
C14_Witness ==
    /\ exc = Exc("ValueError", "perform_http_checks")
    /\ Len(groups) = 2
    /\ gi = 2
    /\ HttpRan = HTTP_CHECK_FUNCS["associatedFeatured"]
    /\ Doc["http_check_associated_featured_graz"] \in DOMAIN CHECKS
    /\ CHECKS[Doc["http_check_associated_featured_graz"]] = << "Bad" >>
    /\ Doc["http_check_associated_featured_invalid"] \in DOMAIN CHECKS

\* run_container has been entered by test_image and has been left again.
RunContainerLeft ==
    /\ mode = "image"
    /\ container # "none"
    /\ pc \in {"save_results", "done", "raised"}

\* What C15 says of a run_container that has been left: 'Stops gracefully'
\* is recorded; after a ContainerDied of the body (the container is known
\* dead) with the 'Very Bad' message and no call of container.stop, and else
\* with Good or Bad after exactly one call of it.
StopsGracefullyRecorded ==
    /\ "Stops gracefully" \in DOMAIN CHECKS
    /\ IF container = "died"
       THEN /\ stop_calls = 0
            /\ CHECKS["Stops gracefully"][1] = "Very Bad, probably died after"
            /\ Len(CHECKS["Stops gracefully"]) = 2
       ELSE /\ stop_calls = 1
            /\ container = "stopped"
            /\ CHECKS["Stops gracefully"] \in
                  {<< "Good, in" >>, << "Bad, did not stop in" >>}

\* C15 as stated: every execution of run_container records 'Stops
\* gracefully' exactly once, whatever happens in the body: 'Very Bad' and
\* no container.stop after ContainerDied, Good or Bad after exactly one
\* container.stop in every other case.
C15_Original ==
    /\ stop_calls <= 1
    /\ "Stops gracefully" \in DOMAIN CHECKS => RunContainerLeft
    /\ RunContainerLeft => StopsGracefullyRecorded

\* C15 where it holds: the same, for every execution of run_container in
\* which container.stop, if called, returns.
C15_WhenStopReturns ==
    /\ stop_calls <= 1
    /\ "Stops gracefully" \in DOMAIN CHECKS => RunContainerLeft
    /\ (RunContainerLeft /\ exc # Exc("NotFound", "container.stop")) =>
            StopsGracefullyRecorded

\* C15 witness: run_container was left after the body raised an exception
\* that is not ContainerDied, container.stop returned late and 'Bad' was
\* recorded.
C15_Witness ==
    /\ RunContainerLeft
    /\ exc = Exc("ConnectionError", "http_check_plzen_cs")
    /\ stop_calls = 1
    /\ "Stops gracefully" \in DOMAIN CHECKS
    /\ CHECKS["Stops gracefully"] = << "Bad, did not stop in" >>
\* C16: render_checks prints, after the two header lines, exactly one row for
\* every check name of the union of the suites' check names, the rows in
\* sorted order; a row has one cell per suite in the order of names, the cell
\* of a suite that lacks the check reading 'None'; the cells of a row are bold
\* exactly when there are more suites than one and their sanitized values are
\* not all equal, and then every cell of the row is bold.
RenderedRows == SubSeq(out_md, 3, Len(out_md))

AllCheckNames == UNION {DOMAIN suites[name].checks : name \in DOMAIN suites}

CellText(name, check_name) ==
    IF check_name \in DOMAIN suites[name].checks
    THEN sanitize(suites[name].checks[check_name])
    ELSE PyStr("None")

Differ(check_name) ==
    \E a, b \in DOMAIN suites : CellText(a, check_name) # CellText(b, check_name)

C16_Rows ==
    (mode = "render" /\ pc = "done") =>
        /\ Len(out_md) = 2 + Cardinality(AllCheckNames)
        /\ \A c \in AllCheckNames :
              Cardinality({i \in 1..Len(RenderedRows) : RenderedRows[i].check_name = c}) = 1
        /\ \A i, j \in 1..Len(RenderedRows) :
              i < j => Rank(RenderedRows[i].check_name) < Rank(RenderedRows[j].check_name)
        /\ \A i \in 1..Len(RenderedRows) :
              LET row == RenderedRows[i]
              IN  /\ row.check_name \in AllCheckNames
                  /\ Len(row.values) = Len(names)
                  /\ \A k \in 1..Len(names) :
                        /\ row.values[k].value = CellText(names[k], row.check_name)
                        /\ row.values[k].bold =
                              (Len(names) > 1 /\ Differ(row.check_name))

\* Two suites rendered: a check that only the second suite has, a row in
\* bold, and a row of two different floats that round to the same text and
\* so is not bold.
C16_Witness ==
    /\ mode = "render"
    /\ pc = "done"
    /\ Len(names) = 2
    /\ \E c \in AllCheckNames : c \notin DOMAIN suites[names[1]].checks
    /\ \E i, j \in 1..Len(RenderedRows) :
          /\ RenderedRows[i].values[1].bold
          /\ RenderedRows[i].values[2].bold
          /\ ~RenderedRows[j].values[1].bold
          /\ \E c \in DOMAIN suites[names[1]].checks \cap DOMAIN suites[names[2]].checks :
                /\ RenderedRows[j].check_name = c
                /\ suites[names[1]].checks[c] # suites[names[2]].checks[c]

\* C17, as stated: the running totals never decrease, for any report that
\* parses: no step lowers TOTAL_REQUESTS or TOTAL_REQUEST_ERRORS, every Stats
\* record after the first has requests_new >= 0 and request_errors_new >= 0,
\* and requests_total of the last Stats record is at most TOTAL_REQUESTS.
StatsNeverNegative ==
    \A i \in 2..Len(STATS) :
        /\ STATS[i].requests_new[1] >= 0
        /\ STATS[i].request_errors_new[1] >= 0

LastStatsWithinTotal ==
    STATS # << >> => STATS[Len(STATS)].requests_total <= TOTAL_REQUESTS

C17_Original ==
    /\ [](StatsNeverNegative /\ LastStatsWithinTotal)
    /\ [][ /\ TOTAL_REQUESTS' >= TOTAL_REQUESTS
           /\ TOTAL_REQUEST_ERRORS' >= TOTAL_REQUEST_ERRORS ]_vars

\* C17, amended: TOTAL_REQUEST_ERRORS never decreases and request_errors_new
\* is never negative, whatever the report; TOTAL_REQUESTS does not decrease,
\* requests_new is not negative and requests_total of the last Stats record
\* is at most TOTAL_REQUESTS, when no report that parsed counted more
\* Non-2xx or 3xx responses than requests.
ErrorsWithinRequests(lines) ==
    Parses(lines) =>
        Reported(lines, Non2xxPattern, "count")
            <= Reported(lines, RequestsPattern, "count")

C17_NeverDecrease ==
    /\ [] /\ \A i \in 2..Len(STATS) : STATS[i].request_errors_new[1] >= 0
          /\ ErrorsWithinRequests(stdout) =>
                StatsNeverNegative /\ LastStatsWithinTotal
    /\ [][ /\ TOTAL_REQUEST_ERRORS' >= TOTAL_REQUEST_ERRORS
           /\ ErrorsWithinRequests(stdout') =>
                 TOTAL_REQUESTS' >= TOTAL_REQUESTS ]_vars

\* C17 witness: a round whose report parsed with as many Non-2xx responses
\* as requests, and a socket error: no new request, three new errors.
C17_Witness ==
    /\ Len(wrk_calls) = 2
    /\ Len(STATS) = 4
    /\ Parses(stdout)
    /\ Reported(stdout, RequestsPattern, "count") = 2
    /\ Reported(stdout, Non2xxPattern, "count") = 2
    /\ Reported(stdout, SocketPattern, "read") = 1
    /\ STATS[4].requests_new = Some(0)
    /\ STATS[4].request_errors_new[1] >= 3
    /\ STATS[4].requests_total = TOTAL_REQUESTS

====
